---- MODULE Spec2Model ----
(***************************************************************************)
(* A model of crawler.py: the crawl loop of crawl_website with its three   *)
(* endpoint producers, the URL validator, the aggregator and the output    *)
(* stage, and main's handling of the output arguments.                     *)
(*                                                                         *)
(* A Python str is a sequence of one-character strings, so that urlparse,  *)
(* the regular expressions and str methods are computed, not assumed.      *)
(*                                                                         *)
(* An operator's parameter cannot bear the name of a state variable, so    *)
(* the parameters for base_domain, endpoints, js_urls, logs, headers,      *)
(* unique_endpoints, urls_to_visit and visited_urls are written domain,    *)
(* found, scripts, log, extra_headers, kept, queue and visited.            *)
(***************************************************************************)
EXTENDS Integers, Sequences, FiniteSets, Bags, TLC

(***************************************************************************)
(* Characters and str methods                                              *)
(***************************************************************************)

\* chr(32) .. chr(126): Ascii[i] = chr(31 + i); chr(96), which a TLA+ string
\* cannot hold, is written "<backtick>"
Ascii ==
  <<" ","!","\"","#","$","%","&","'","(",")","*","+",",","-",".","/","0","1","2","3","4","5","6","7","8","9",":",";","<","=",">","?","@","A","B","C","D","E","F","G","H","I","J","K","L","M","N","O","P","Q","R","S","T","U","V","W","X","Y","Z","[","\\","]","^","_","<backtick>","a","b","c","d","e","f","g","h","i","j","k","l","m","n","o","p","q","r","s","t","u","v","w","x","y","z","{","|","}","~">>

Ord(c) == 31 + CHOOSE i \in 1..Len(Ascii) : Ascii[i] = c

CharRange(a, b) == { Ascii[i] : i \in (Ord(a) - 31)..(Ord(b) - 31) }

Lowercase == CharRange("a", "z")

Uppercase == CharRange("A", "Z")

Digits == CharRange("0", "9")

HexDigits == Digits \cup CharRange("a", "f") \cup CharRange("A", "F")

\* [a-zA-Z0-9]
Alnum == Lowercase \cup Uppercase \cup Digits

\* \w of the re module (ASCII part)
WordChars == Alnum \cup {"_"}

\* \s of the re module
Whitespace == {" ", "\t", "\n", "\r", "\f"}

\* A character that unquote produces from an escape outside chr(32)..chr(126).
NonPrintable == "<non-printable>"

ToLower(c) == IF c \in Uppercase THEN Ascii[Ord(c) + 1] ELSE c

\* str.lower
lower(s) == [i \in 1..Len(s) |-> ToLower(s[i])]

\* s[i:i+len(lit)] == lit (1-based i)
MatchAt(s, i, lt) ==
  /\ i >= 1
  /\ i + Len(lt) - 1 <= Len(s)
  /\ \A k \in 1..Len(lt) : s[i + k - 1] = lt[k]

\* lit in s
Contains(s, lt) == \E i \in 1..(Len(s) + 1) : MatchAt(s, i, lt)

\* s.endswith(lit)
EndsWith(s, lt) == MatchAt(s, Len(s) - Len(lt) + 1, lt)

\* s.find(c) for a character set cs, 1-based; 0 when there is none
FindAny(s, cs) ==
  IF \E i \in 1..Len(s) : s[i] \in cs
  THEN CHOOSE i \in 1..Len(s) : s[i] \in cs /\ \A j \in 1..(i - 1) : s[j] \notin cs
  ELSE 0

Find(s, c) == FindAny(s, {c})

\* s.rfind(c), 1-based; 0 when there is none
RFind(s, c) ==
  IF \E i \in 1..Len(s) : s[i] = c
  THEN CHOOSE i \in 1..Len(s) : s[i] = c /\ \A j \in (i + 1)..Len(s) : s[j] # c
  ELSE 0

\* s[i:] (1-based i)
From(s, i) == SubSeq(s, i, Len(s))

\* s[:i-1] (1-based i)
Upto(s, i) == SubSeq(s, 1, i - 1)

\* s.split(c)
RECURSIVE Split(_, _)
Split(s, c) ==
  LET i == Find(s, c)
  IN IF i = 0 THEN <<s>> ELSE <<Upto(s, i)>> \o Split(From(s, i + 1), c)

\* s.strip(chars)
RECURSIVE Strip(_, _)
Strip(s, cs) ==
  IF Len(s) > 0 /\ s[1] \in cs THEN Strip(Tail(s), cs)
  ELSE IF Len(s) > 0 /\ s[Len(s)] \in cs THEN Strip(Upto(s, Len(s)), cs)
  ELSE s

(***************************************************************************)
(* urllib.parse as crawler.py uses it                                      *)
(***************************************************************************)

scheme_chars == Alnum \cup {"+", "-", "."}

uses_params ==
  { <<>>,
    <<"f","t","p">>,
    <<"h","d","l">>,
    <<"p","r","o","s","p","e","r","o">>,
    <<"h","t","t","p">>,
    <<"i","m","a","p">>,
    <<"h","t","t","p","s">>,
    <<"s","h","t","t","p">>,
    <<"r","t","s","p">>,
    <<"r","t","s","p","s">>,
    <<"r","t","s","p","u">>,
    <<"s","i","p">>,
    <<"s","i","p","s">>,
    <<"m","m","s">>,
    <<"s","f","t","p">>,
    <<"t","e","l">> }

\* urlsplit: the scheme is what precedes the first ':' when it is made of
\* scheme characters and starts with a letter.
SplitScheme(url) ==
  LET i == Find(url, ":")
  IN IF i > 1 /\ url[1] \in (Lowercase \cup Uppercase)
             /\ \A k \in 1..(i - 1) : url[k] \in scheme_chars
     THEN [scheme |-> lower(Upto(url, i)), rest |-> From(url, i + 1)]
     ELSE [scheme |-> <<>>, rest |-> url]

\* urlsplit / _splitnetloc: after '//' the netloc runs to the first of '/?#'.
SplitNetloc(rest) ==
  IF MatchAt(rest, 1, <<"/", "/">>)
  THEN LET body == From(rest, 3)
           d == FindAny(body, {"/", "?", "#"})
       IN IF d = 0 THEN [netloc |-> body, rest |-> <<>>]
          ELSE [netloc |-> Upto(body, d), rest |-> From(body, d)]
  ELSE [netloc |-> <<>>, rest |-> rest]

\* url.split(c, 1)
SplitOnce(s, c) ==
  LET i == Find(s, c)
  IN IF i = 0 THEN [head |-> s, tail |-> <<>>]
     ELSE [head |-> Upto(s, i), tail |-> From(s, i + 1)]

\* urlparse / _splitparams: ';params' of the last path segment
SplitParams(url) ==
  LET slash == RFind(url, "/")
      semi == IF slash > 0
              THEN (IF Find(From(url, slash), ";") = 0 THEN 0
                    ELSE slash - 1 + Find(From(url, slash), ";"))
              ELSE Find(url, ";")
  IN IF semi = 0 THEN [path |-> url, params |-> <<>>]
     ELSE [path |-> Upto(url, semi), params |-> From(url, semi + 1)]

\* urlparse(url, scheme=default); error is the ValueError("Invalid IPv6 URL")
\* of urlsplit
UrlRecord(scheme, netloc, f, q, p) ==
  [scheme |-> scheme, netloc |-> netloc, path |-> p.path,
   params |-> p.params, query |-> q.tail, fragment |-> f.tail,
   error |-> (Find(netloc, "[") > 0) # (Find(netloc, "]") > 0)]

UrlParams(scheme, netloc, f, q) ==
  UrlRecord(scheme, netloc, f, q,
            IF scheme \in uses_params THEN SplitParams(q.head)
            ELSE [path |-> q.head, params |-> <<>>])

UrlQuery(scheme, netloc, f) == UrlParams(scheme, netloc, f, SplitOnce(f.head, "?"))

UrlFragment(scheme, n) == UrlQuery(scheme, n.netloc, SplitOnce(n.rest, "#"))

UrlNetloc(s, default) ==
  UrlFragment(IF Len(s.scheme) > 0 THEN s.scheme ELSE default, SplitNetloc(s.rest))

urlparse_default(url, default) == UrlNetloc(SplitScheme(url), default)

urlparse(url) == urlparse_default(url, <<>>)

uses_relative ==
  { <<>>,
    <<"f","t","p">>,
    <<"h","t","t","p">>,
    <<"g","o","p","h","e","r">>,
    <<"n","n","t","p">>,
    <<"i","m","a","p">>,
    <<"w","a","i","s">>,
    <<"f","i","l","e">>,
    <<"h","t","t","p","s">>,
    <<"s","h","t","t","p">>,
    <<"m","m","s">>,
    <<"p","r","o","s","p","e","r","o">>,
    <<"r","t","s","p">>,
    <<"r","t","s","p","s">>,
    <<"r","t","s","p","u">>,
    <<"s","f","t","p">>,
    <<"s","v","n">>,
    <<"s","v","n","+","s","s","h">>,
    <<"w","s">>,
    <<"w","s","s">> }

uses_netloc ==
  { <<>>,
    <<"f","t","p">>,
    <<"h","t","t","p">>,
    <<"g","o","p","h","e","r">>,
    <<"n","n","t","p">>,
    <<"t","e","l","n","e","t">>,
    <<"i","m","a","p">>,
    <<"w","a","i","s">>,
    <<"f","i","l","e">>,
    <<"m","m","s">>,
    <<"h","t","t","p","s">>,
    <<"s","h","t","t","p">>,
    <<"s","n","e","w","s">>,
    <<"p","r","o","s","p","e","r","o">>,
    <<"r","t","s","p">>,
    <<"r","t","s","p","s">>,
    <<"r","t","s","p","u">>,
    <<"r","s","y","n","c">>,
    <<"s","v","n">>,
    <<"s","v","n","+","s","s","h">>,
    <<"s","f","t","p">>,
    <<"n","f","s">>,
    <<"g","i","t">>,
    <<"g","i","t","+","s","s","h">>,
    <<"w","s">>,
    <<"w","s","s">> }

\* urlunparse
urlunparse(scheme, netloc, path, params, query, fragment) ==
  LET u1 == IF Len(params) > 0 THEN path \o <<";">> \o params ELSE path
      u2 == IF Len(netloc) > 0
               \/ (Len(scheme) > 0 /\ scheme \in uses_netloc
                   /\ ~MatchAt(u1, 1, <<"/", "/">>))
            THEN <<"/", "/">> \o netloc
                 \o (IF Len(u1) > 0 /\ u1[1] # "/" THEN <<"/">> ELSE <<>>) \o u1
            ELSE u1
      u3 == IF Len(scheme) > 0 THEN scheme \o <<":">> \o u2 ELSE u2
      u4 == IF Len(query) > 0 THEN u3 \o <<"?">> \o query ELSE u3
  IN IF Len(fragment) > 0 THEN u4 \o <<"#">> \o fragment ELSE u4

\* '/'.join(segments)
RECURSIVE Join(_)
Join(segments) ==
  IF Len(segments) = 0 THEN <<>>
  ELSE IF Len(segments) = 1 THEN segments[1]
  ELSE segments[1] \o <<"/">> \o Join(Tail(segments))

\* filter(None, segments)
RECURSIVE NonEmpty(_)
NonEmpty(segments) ==
  IF Len(segments) = 0 THEN <<>>
  ELSE (IF Len(segments[1]) > 0 THEN <<segments[1]>> ELSE <<>>)
       \o NonEmpty(Tail(segments))

\* urljoin's removal of '.' and '..' segments, resolved being the segments
\* kept so far
RECURSIVE Resolve(_, _)
Resolve(segments, resolved) ==
  IF Len(segments) = 0 THEN resolved
  ELSE LET seg == segments[1]
       IN Resolve(Tail(segments),
            IF seg = <<".", ".">>
            THEN (IF Len(resolved) > 0 THEN Upto(resolved, Len(resolved)) ELSE resolved)
            ELSE IF seg = <<".">> THEN resolved
            ELSE Append(resolved, seg))

\* base_parts = bpath.split('/'), without a last segment that is not empty
BaseParts(bsplit) ==
  IF bsplit[Len(bsplit)] # <<>> THEN Upto(bsplit, Len(bsplit)) ELSE bsplit

\* segments of the joined path: filter(None, ...) between the first and the
\* last one
Segments(path, joined) ==
  IF Len(path) > 0 /\ path[1] = "/" THEN Split(path, "/")
  ELSE IF Len(joined) <= 2 THEN joined
  ELSE <<joined[1]>> \o NonEmpty(SubSeq(joined, 2, Len(joined) - 1))
       \o <<joined[Len(joined)]>>

PathOrSlash(p) == IF Len(p) > 0 THEN p ELSE <<"/">>

ResolvedPath(segments) ==
  PathOrSlash(Join(Resolve(segments, <<>>)
                   \o (IF segments[Len(segments)] \in {<<".">>, <<".", ".">>}
                       THEN << <<>> >> ELSE <<>>)))

\* urljoin once both URLs are parsed
JoinParsed(url, b, u) ==
  IF u.scheme # b.scheme \/ u.scheme \notin uses_relative THEN url
  ELSE IF u.scheme \in uses_netloc /\ Len(u.netloc) > 0
  THEN urlunparse(u.scheme, u.netloc, u.path, u.params, u.query, u.fragment)
  ELSE IF Len(u.path) = 0 /\ Len(u.params) = 0
  THEN urlunparse(u.scheme,
                  IF u.scheme \in uses_netloc THEN b.netloc ELSE u.netloc,
                  b.path, b.params,
                  IF Len(u.query) > 0 THEN u.query ELSE b.query, u.fragment)
  ELSE urlunparse(u.scheme,
                  IF u.scheme \in uses_netloc THEN b.netloc ELSE u.netloc,
                  ResolvedPath(Segments(u.path,
                                        BaseParts(Split(b.path, "/"))
                                        \o Split(u.path, "/"))),
                  u.params, u.query, u.fragment)

JoinBase(url, b) == JoinParsed(url, b, urlparse_default(url, b.scheme))

urljoin(base, url) ==
  IF Len(base) = 0 THEN url
  ELSE IF Len(url) = 0 THEN base
  ELSE JoinBase(url, urlparse(base))

\* unquote of one '%XX' escape: the character, NonPrintable outside
\* chr(32)..chr(126)
HexVal(c) ==
  IF c \in Digits THEN Ord(c) - Ord("0") ELSE Ord(ToLower(c)) - Ord("a") + 10

Unescape(h1, h2) ==
  LET code == 16 * HexVal(h1) + HexVal(h2)
  IN IF code >= 32 /\ code <= 126 THEN Ascii[code - 31] ELSE NonPrintable

\* s[i] opens a '%XX' escape
IsEscape(s, i) ==
  s[i] = "%" /\ i + 2 <= Len(s) /\ s[i + 1] \in HexDigits /\ s[i + 2] \in HexDigits

\* the character position i of s decodes to
Unquoted(s, i) ==
  IF IsEscape(s, i) THEN Unescape(s[i + 1], s[i + 2])
  ELSE IF s[i] = "+" THEN " "
  ELSE s[i]

\* the positions of s that are not the hex digits of an escape
UnquotedPositions(s) ==
  {i \in 1..Len(s) : ~(i > 1 /\ IsEscape(s, i - 1)) /\ ~(i > 2 /\ IsEscape(s, i - 2))}

\* the k-th smallest element of the set of positions pos
Nth(pos, k) == CHOOSE i \in pos : Cardinality({j \in pos : j <= i}) = k

UnquoteAt(s, pos) == [k \in 1..Cardinality(pos) |-> Unquoted(s, Nth(pos, k))]

\* unquote(s.replace('+', ' ')), without recursion so that long values
\* are decoded too
unquote_plus(s) == UnquoteAt(s, UnquotedPositions(s))

\* The values of parse_qs(query): for each '&'-separated field with an '='
\* and a non-blank value, the decoded value.
RECURSIVE QueryValues(_)
QueryValues(fields) ==
  IF Len(fields) = 0 THEN <<>>
  ELSE LET nv == fields[1]
           i == Find(nv, "=")
       IN (IF i = 0 \/ i = Len(nv) THEN <<>> ELSE <<unquote_plus(From(nv, i + 1))>>)
          \o QueryValues(Tail(fields))

parse_qs_values(query) == QueryValues(Split(query, "&"))

(***************************************************************************)
(* is_valid_url                                                            *)
(***************************************************************************)

MaxQueryValueLen == 100

Range(s) == { s[i] : i \in 1..Len(s) }

\* re.match(r'^/[a-zA-Z0-9\-_/]*$', path)
PathPattern(path) ==
  /\ Len(path) >= 1
  /\ path[1] = "/"
  /\ \A i \in 2..Len(path) : path[i] \in Alnum \cup {"-", "_", "/"}

exclude_extensions ==
  { <<"c","s","s">>,
    <<"j","s">>,
    <<"i","c","o">>,
    <<"p","n","g">>,
    <<"j","p","g">>,
    <<"j","p","e","g">>,
    <<"g","i","f">>,
    <<"s","v","g">>,
    <<"w","o","f","f">>,
    <<"w","o","f","f","2">>,
    <<"t","t","f">>,
    <<"e","o","t">>,
    <<"m","a","p">>,
    <<"t","x","t">>,
    <<"x","m","l">>,
    <<"p","d","f">> }

\* re.search(exclude_extensions, path, re.IGNORECASE)
HasExcludedExtension(path) ==
  \E ext \in exclude_extensions : EndsWith(lower(path), <<".">> \o ext)

\* \bword\b
WordBounded(s, w) ==
  \E i \in 1..Len(s) :
    /\ MatchAt(s, i, w)
    /\ i = 1 \/ s[i - 1] \notin WordChars
    /\ i + Len(w) > Len(s) \/ s[i + Len(w)] \notin WordChars

\* open, then only characters of `between`, then close
Bracketed(s, open, close, between) ==
  \E i \in 1..Len(s) : \E j \in (i + 1)..Len(s) :
    /\ s[i] = open
    /\ s[j] = close
    /\ \A k \in (i + 1)..(j - 1) : s[k] \in between

\* any(re.search(pattern, full_url) for pattern in invalid_patterns)
MatchesInvalidPattern(full_url) ==
  \/ Contains(full_url, <<"f","u","n","c","t","i","o","n","(">>)
  \/ Contains(full_url, <<"}", "}">>)
  \/ Contains(full_url, <<"|", "|">>)
  \/ Bracketed(full_url, "(", ")", Whitespace)
  \/ Bracketed(full_url, "[", "]", {c \in Range(full_url) : c # "\n"})
  \/ Bracketed(full_url, "{", "}", {c \in Range(full_url) : c # "\n"})
  \/ Contains(full_url, <<"=", "=">>)
  \/ \E i \in 1..Len(full_url) : \E j \in (i + 1)..Len(full_url) :
       /\ full_url[i] = "?"
       /\ \A k \in (i + 1)..j : full_url[k] \in Digits
       /\ MatchAt(full_url, j + 1, <<":", "e", "=">>)
  \/ WordBounded(full_url, <<"v", "a", "r">>)
  \/ WordBounded(full_url, <<"i", "f">>)
  \/ WordBounded(full_url, <<"e", "l", "s", "e">>)
  \/ Contains(full_url, <<"#", "\\">>)
  \/ Contains(full_url, <<"?", "$", "|">>)
  \/ Contains(full_url, <<",","P","t","=","f","u","n","c","t","i","o","n">>)

\* len(value) > 100 or re.search(r'[^a-zA-Z0-9=&%_]', value)
BadQueryValue(value) ==
  \/ Len(value) > MaxQueryValueLen
  \/ \E i \in 1..Len(value) : value[i] \notin Alnum \cup {"=", "&", "%", "_"}

\* the body of is_valid_url's try, parsed_url being urlparse(url); a
\* ValueError of urlparse is caught at line 70
ValidParsed(url, parsed_url, domain) ==
  IF parsed_url.error THEN FALSE
  ELSE IF parsed_url.scheme \notin {<<"h","t","t","p">>, <<"h","t","t","p","s">>} THEN FALSE
  ELSE IF ~Contains(parsed_url.netloc, domain) THEN FALSE
  ELSE IF Len(parsed_url.path) = 0 \/ parsed_url.path = <<"/">> THEN TRUE
  ELSE IF ~PathPattern(parsed_url.path) THEN FALSE
  ELSE IF HasExcludedExtension(parsed_url.path) THEN FALSE
  ELSE IF MatchesInvalidPattern(lower(url)) THEN FALSE
  ELSE IF Len(parsed_url.query) > 0
          /\ \E value \in Range(parse_qs_values(parsed_url.query)) : BadQueryValue(value)
  THEN FALSE
  ELSE TRUE

is_valid_url(url, domain) == ValidParsed(url, urlparse(url), domain)


(***************************************************************************)
(* Python values met in the network log: a value carries its type. A str   *)
(* holding JSON text carries what json.loads makes of it in `json`         *)
(* (NotJson when the text does not decode); a dict is a function.          *)
(***************************************************************************)

NotJson == [t |-> "invalid"]

None == [t |-> "NoneType"]

PyStr(s) == [t |-> "str", v |-> s]

PyInt(n) == [t |-> "int", v |-> n]

PyDict(f) == [t |-> "dict", v |-> f]

\* a str whose text is the JSON encoding of `value`
JsonText(value) == [t |-> "str", json |-> value]

\* a str whose text is not JSON
BadJsonText == [t |-> "str", json |-> NotJson]

EmptyDict == << >>

\* The result of an expression that may raise: exc is "" or the exception.
Ok(value) == [exc |-> "", val |-> value]

Raise(e) == [exc |-> e, val |-> None]

\* obj[key]
GetItem(obj, key) ==
  IF obj.t = "dict"
  THEN (IF key \in DOMAIN obj.v THEN Ok(obj.v[key]) ELSE Raise("KeyError"))
  ELSE Raise("TypeError")

\* obj.get(key, default)
DictGet(obj, key, default) ==
  IF obj.t = "dict"
  THEN (IF key \in DOMAIN obj.v THEN Ok(obj.v[key]) ELSE Ok(default))
  ELSE Raise("AttributeError")

\* json.loads(s)
json_loads(s) ==
  IF s.t # "str" THEN Raise("TypeError")
  ELSE IF "json" \notin DOMAIN s \/ s.json = NotJson THEN Raise("JSONDecodeError")
  ELSE Ok(s.json)

\* bool(value)
Truthy(value) ==
  CASE value.t = "NoneType" -> FALSE
    [] value.t = "int" -> value.v # 0
    [] value.t = "str" -> "json" \in DOMAIN value \/ Len(value.v) > 0
    [] value.t = "dict" -> DOMAIN value.v # {}
    [] OTHER -> TRUE

extract_parameters(request_body) ==
  IF ~Truthy(request_body) THEN PyDict(EmptyDict)
  ELSE LET r == json_loads(request_body)
       IN IF r.exc \in {"JSONDecodeError", "TypeError"}
          THEN PyDict([k \in {"raw_body"} |-> request_body])
          ELSE r.val

(***************************************************************************)
(* Network Capture Listener: crawl_website, lines 239-261                  *)
(***************************************************************************)

basic_headers ==
  { <<"H","o","s","t">>,
    <<"C","o","n","n","e","c","t","i","o","n">>,
    <<"U","s","e","r","-","A","g","e","n","t">>,
    <<"A","c","c","e","p","t">>,
    <<"A","c","c","e","p","t","-","E","n","c","o","d","i","n","g">>,
    <<"A","c","c","e","p","t","-","L","a","n","g","u","a","g","e">>,
    <<"C","o","n","t","e","n","t","-","L","e","n","g","t","h">>,
    <<"C","o","n","t","e","n","t","-","T","y","p","e">>,
    <<"O","r","i","g","i","n">>,
    <<"R","e","f","e","r","e","r">>,
    <<"S","e","c","-","F","e","t","c","h","-","S","i","t","e">>,
    <<"S","e","c","-","F","e","t","c","h","-","M","o","d","e">>,
    <<"S","e","c","-","F","e","t","c","h","-","D","e","s","t">> }

RequestWillBeSent == <<"N","e","t","w","o","r","k",".","r","e","q","u","e","s","t","W","i","l","l","B","e","S","e","n","t">>

DotJs == <<".", "j", "s">>

\* {k: v for k, v in headers.items() if k not in basic_headers}
StripHeaders(hdrs) == [k \in (DOMAIN hdrs) \ basic_headers |-> hdrs[k]]

\* is_valid_url on a value of any type: urlparse raises on a non-str and
\* is_valid_url returns False
IsValidValue(value, domain) ==
  value.t = "str" /\ "v" \in DOMAIN value /\ is_valid_url(value.v, domain)

\* One iteration of `for entry in logs` (lines 242-259). st holds the
\* endpoints and js_urls; the result holds them after the iteration and the
\* exception the entry raised ("" when none).
\* the entry is left with exception e ("" when it is only passed over)
Skip(st, e) == [exc |-> e, endpoints |-> st.endpoints, js_urls |-> st.js_urls]

\* lines 256-257
EntryJs(request_url, valid, found, scripts) ==
  IF request_url.t # "str"
  THEN [exc |-> "AttributeError", endpoints |-> found, js_urls |-> scripts]
  ELSE [exc |-> "", endpoints |-> found,
        js_urls |-> IF EndsWith(request_url.v, DotJs) /\ valid
                    THEN scripts \cup {request_url.v}
                    ELSE scripts]

\* lines 247-255
EntryAppend(request_url, postData, hdrs, method, st) ==
  IF hdrs.val.t # "dict" THEN Skip(st, "AttributeError")
  ELSE IF method.exc # "" THEN Skip(st, method.exc)
  ELSE EntryJs(request_url, TRUE,
               st.endpoints \o
                 << [url |-> request_url.v,
                     method |-> method.val,
                     body_params |-> extract_parameters(postData.val),
                     extra_headers |-> StripHeaders(hdrs.val.v)] >>,
               st.js_urls)

\* line 246
EntryValid(request, request_url, valid, st) ==
  IF valid
  THEN EntryAppend(request_url, DictGet(request, "postData", None),
                   DictGet(request, "headers", PyDict(EmptyDict)),
                   GetItem(request, "method"), st)
  ELSE EntryJs(request_url, FALSE, st.endpoints, st.js_urls)

\* line 245
EntryUrl(request, request_url, st, domain) ==
  IF request_url.exc # "" THEN Skip(st, request_url.exc)
  ELSE EntryValid(request, request_url.val,
                  IsValidValue(request_url.val, domain), st)

\* line 244
EntryRequest(request, st, domain) ==
  IF request.exc # "" THEN Skip(st, request.exc)
  ELSE EntryUrl(request.val, GetItem(request.val, "url"), st, domain)

EntryParams(params, st, domain) ==
  IF params.exc # "" THEN Skip(st, params.exc)
  ELSE EntryRequest(GetItem(params.val, "request"), st, domain)

\* line 243
EntryKind(message, kind, st, domain) ==
  IF kind.exc # "" THEN Skip(st, kind.exc)
  ELSE IF kind.val # PyStr(RequestWillBeSent) THEN Skip(st, "")
  ELSE EntryParams(GetItem(message, "params"), st, domain)

\* line 242
EntryMessage(message, st, domain) ==
  IF message.exc # "" THEN Skip(st, message.exc)
  ELSE EntryKind(message.val, GetItem(message.val, "method"), st, domain)

EntryLoaded(loaded, st, domain) ==
  IF loaded.exc # "" THEN Skip(st, loaded.exc)
  ELSE EntryMessage(GetItem(loaded.val, "message"), st, domain)

EntryText(text, st, domain) ==
  IF text.exc # "" THEN Skip(st, text.exc)
  ELSE EntryLoaded(json_loads(text.val), st, domain)

ProcessEntry(entry, st, domain) ==
  EntryText(GetItem(entry, "message"), st, domain)

\* except (KeyError, json.JSONDecodeError): the entry is skipped
CaughtPerEntry == {"", "KeyError", "JSONDecodeError"}

\* `for entry in logs` inside the try of line 239: an exception the inner
\* except does not name leaves the loop (the except of line 260).
RECURSIVE ProcessLog(_, _, _)
\* after one entry left r: the rest of the log, unless the exception is one
\* the inner except does not name
AfterEntry(rest, r, domain) ==
  IF r.exc \in CaughtPerEntry THEN ProcessLog(rest, r, domain) ELSE r

ProcessLog(log, st, domain) ==
  IF Len(log) = 0 THEN Skip(st, "")
  ELSE AfterEntry(Tail(log), ProcessEntry(log[1], st, domain), domain)

(***************************************************************************)
(* Form Extractor: extract_form_data. A form element is a record           *)
(*   [displayed, action, method, inputs, selects, checkboxes, stale]       *)
(* whose attributes are str ("" when the attribute is absent); a field is  *)
(*   [usable, name, type, tag_name, value, options]                        *)
(* with usable = is_displayed() and is_enabled(). stale is a form whose    *)
(* attribute reads raise.                                                  *)
(***************************************************************************)

ToUpper(c) == IF c \in Lowercase THEN Ascii[Ord(c) - 63] ELSE c

\* str.upper
upper(s) == [i \in 1..Len(s) |-> ToUpper(s[i])]

\* form_data[name] = value
DictSet(d, key, value) ==
  [k \in (DOMAIN d) \cup {key} |-> IF k = key THEN value ELSE d[k]]

\* name = field.get_attribute("name") or f"{prefix}_{len(form_data)}"
FieldName(field, prefix, form_data) ==
  IF field.name # "" THEN field.name
  ELSE prefix \o "_" \o ToString(Cardinality(DOMAIN form_data))

\* lines 96-102
InputValue(field) ==
  IF field.type = "password" THEN <<"T","e","s","t","1","2","3","!">>
  ELSE IF field.type = "number" THEN <<"4", "2">>
  ELSE IF field.tag_name = "textarea" THEN <<"S","a","m","p","l","e"," ","t","e","x","t">>
  ELSE <<"t", "e", "s", "t">>

\* `for input_field in inputs` (lines 91-106)
RECURSIVE FillInputs(_, _)
FillInputs(inputs, form_data) ==
  IF Len(inputs) = 0 THEN form_data
  ELSE LET f == inputs[1]
       IN FillInputs(Tail(inputs),
            IF f.usable
            THEN DictSet(form_data, FieldName(f, "input", form_data),
                         PyStr(InputValue(f)))
            ELSE form_data)

\* `for select in selects` (lines 108-119): the last option is selected
RECURSIVE FillSelects(_, _)
FillSelects(selects, form_data) ==
  IF Len(selects) = 0 THEN form_data
  ELSE LET f == selects[1]
       IN FillSelects(Tail(selects),
            IF f.usable /\ Len(f.options) > 0
            THEN DictSet(form_data, FieldName(f, "select", form_data),
                         PyStr(f.options[Len(f.options)]))
            ELSE form_data)

\* `for checkbox in checkboxes` (lines 121-129)
RECURSIVE FillCheckboxes(_, _)
FillCheckboxes(checkboxes, form_data) ==
  IF Len(checkboxes) = 0 THEN form_data
  ELSE LET f == checkboxes[1]
       IN FillCheckboxes(Tail(checkboxes),
            IF f.usable
            THEN DictSet(form_data, FieldName(f, "checkbox", form_data),
                         PyStr(IF Len(f.value) > 0 THEN f.value ELSE <<"o", "n">>))
            ELSE form_data)

\* extract_form_data(form, driver), base_url being driver.current_url:
\* the descriptor, or None.
extract_form_data(form, base_url) ==
  IF form.stale THEN None
  ELSE [t |-> "dict",
        url |-> IF Len(form.action) > 0 THEN urljoin(base_url, form.action)
                ELSE base_url,
        method |-> PyStr(upper(IF Len(form.method) > 0 THEN form.method
                               ELSE <<"P", "O", "S", "T">>)),
        body_params |-> PyDict(FillCheckboxes(form.checkboxes,
                                 FillSelects(form.selects,
                                   FillInputs(form.inputs, EmptyDict)))),
        extra_headers |-> EmptyDict]

\* lines 213-216 without the test of is_valid_url: the appending
\* CollectionAlwaysValid does not hold of
AppendFormUnchecked(form_data, found, domain, extra_headers) ==
  IF form_data.t # "NoneType"
  THEN found \o << [url |-> form_data.url,
                        method |-> form_data.method,
                        body_params |-> form_data.body_params,
                        extra_headers |-> extra_headers] >>
  ELSE found

\* `for form in forms` of crawl_website (lines 210-218)
\* lines 212-216 for one displayed form
AppendForm(form_data, found, domain, extra_headers) ==
  IF form_data.t # "NoneType" /\ is_valid_url(form_data.url, domain)
  THEN found \o << [url |-> form_data.url,
                        method |-> form_data.method,
                        body_params |-> form_data.body_params,
                        extra_headers |-> extra_headers] >>
  ELSE found

RECURSIVE ProcessForms(_, _, _, _, _)
ProcessForms(forms, found, base_url, domain, extra_headers) ==
  IF Len(forms) = 0 THEN found
  ELSE ProcessForms(Tail(forms),
         IF forms[1].displayed
         THEN AppendForm(extract_form_data(forms[1], base_url), found,
                         domain, extra_headers)
         ELSE found,
         base_url, domain, extra_headers)

(***************************************************************************)
(* Static Script Endpoint Extractor: extract_endpoints_from_js             *)
(***************************************************************************)

Quotes == {"'", "\""}

\* [^"\s]
NotQuoteSpace(c) == c # "\"" /\ c \notin Whitespace

SetMin(S) == CHOOSE m \in S : \A n \in S : m <= n

SetMax(S) == CHOOSE m \in S : \A n \in S : m >= n

\* The last position of the run of [^"\s] characters that holds position i.
RunEnd(text, i) ==
  LET stops == {k \in i..Len(text) : ~NotQuoteSpace(text[k])}
  IN IF stops = {} THEN Len(text) ELSE SetMin(stops) - 1

\* Where [^"\s]+ starts when https?:\/\/ matches at i; 0 when it does not.
AfterScheme(text, i) ==
  IF MatchAt(text, i, <<"h","t","t","p","s",":","/","/">>) THEN i + 8
  ELSE IF MatchAt(text, i, <<"h","t","t","p",":","/","/">>) THEN i + 7
  ELSE 0

\* The positions j of the second '/' of /[^"\s/][^"\s]*?/[^"\s/] matched at s.
SecondSlashes(text, s) ==
  IF s + 1 <= Len(text) /\ text[s] = "/" /\ NotQuoteSpace(text[s + 1])
     /\ text[s + 1] # "/"
  THEN {j \in (s + 2)..(RunEnd(text, s + 1) - 1) : text[j] = "/" /\ text[j + 1] # "/"}
  ELSE {}

\* path_pattern matched at position i: the last position of the match, 0
\* when there is none. Both alternatives end with a greedy [^"\s] run.
PathMatchEnd(text, i) ==
  LET p == AfterScheme(text, i)
  IN IF p > 0 /\ p <= Len(text) /\ NotQuoteSpace(text[p]) THEN RunEnd(text, p)
     ELSE IF SecondSlashes(text, i) # {} THEN RunEnd(text, i + 1)
     ELSE 0

\* The closing ['"] of quoted_path_pattern for a body whose greedy tail may
\* start at `from` and whose run ends at e: the '"' after the run, else the
\* last "'" of the tail; 0 when there is none.
ClosingQuote(text, from, e) ==
  IF e + 1 <= Len(text) /\ text[e + 1] = "\"" THEN e + 1
  ELSE LET qs == {q \in from..e : text[q] = "'"}
       IN IF qs = {} THEN 0 ELSE SetMax(qs)

\* quoted_path_pattern matched at position i: the last position of the
\* match, 0 when there is none.
QuotedMatchEnd(text, i) ==
  LET p == AfterScheme(text, i + 1)
      js == SecondSlashes(text, i + 1)
  IN IF text[i] \notin Quotes THEN 0
     ELSE IF p > 0 /\ p <= Len(text) /\ NotQuoteSpace(text[p])
     THEN ClosingQuote(text, p + 1, RunEnd(text, p))
     ELSE IF js # {} THEN ClosingQuote(text, SetMin(js) + 2, RunEnd(text, i + 2))
     ELSE 0

\* re.findall(path_pattern, text), scanning from position i
RECURSIVE FindPaths(_, _)
FindPaths(text, i) ==
  IF i > Len(text) THEN <<>>
  ELSE LET e == PathMatchEnd(text, i)
       IN IF e > 0 THEN <<SubSeq(text, i, e)>> \o FindPaths(text, e + 1)
          ELSE FindPaths(text, i + 1)

\* re.findall(quoted_path_pattern, text), scanning from position i
RECURSIVE FindQuotedPaths(_, _)
FindQuotedPaths(text, i) ==
  IF i > Len(text) THEN <<>>
  ELSE LET e == QuotedMatchEnd(text, i)
       IN IF e > 0 THEN <<SubSeq(text, i, e)>> \o FindQuotedPaths(text, e + 1)
          ELSE FindQuotedPaths(text, i + 1)

\* re.search(r'\.name\s*\(', js_content, re.IGNORECASE)
HasCall(js_content, name) ==
  LET s == lower(js_content)
      pat == <<".">> \o name
  IN \E i \in 1..Len(s) : \E k \in (i + Len(pat))..Len(s) :
       /\ MatchAt(s, i, pat)
       /\ s[k] = "("
       /\ \A w \in (i + Len(pat))..(k - 1) : s[w] \in Whitespace

\* re.search(r'method:\s*[\'"]NAME[\'"]', js_content, re.IGNORECASE)
HasMethodLiteral(js_content, name) ==
  LET s == lower(js_content)
      pat == <<"m","e","t","h","o","d",":">>
  IN \E i \in 1..Len(s) : \E k \in (i + Len(pat))..Len(s) :
       /\ MatchAt(s, i, pat)
       /\ \A w \in (i + Len(pat))..(k - 1) : s[w] \in Whitespace
       /\ s[k] \in Quotes
       /\ MatchAt(s, k + 1, name)
       /\ k + Len(name) + 1 <= Len(s)
       /\ s[k + Len(name) + 1] \in Quotes

\* lines 159-165 with PUT tested before POST: the inference
\* SameMethodByPriority does not hold of
InferMethodPutFirst(js_content) ==
  IF HasCall(js_content, <<"p","u","t">>) \/ HasMethodLiteral(js_content, <<"p","u","t">>)
  THEN <<"P","U","T">>
  ELSE IF HasCall(js_content, <<"p","o","s","t">>) \/ HasMethodLiteral(js_content, <<"p","o","s","t">>)
  THEN <<"P","O","S","T">>
  ELSE IF HasCall(js_content, <<"d","e","l","e","t","e">>) \/ HasMethodLiteral(js_content, <<"d","e","l","e","t","e">>)
  THEN <<"D","E","L","E","T","E">>
  ELSE <<"G","E","T">>

\* lines 159-165
InferMethod(js_content) ==
  IF HasCall(js_content, <<"p","o","s","t">>) \/ HasMethodLiteral(js_content, <<"p","o","s","t">>)
  THEN <<"P","O","S","T">>
  ELSE IF HasCall(js_content, <<"p","u","t">>) \/ HasMethodLiteral(js_content, <<"p","u","t">>)
  THEN <<"P","U","T">>
  ELSE IF HasCall(js_content, <<"d","e","l","e","t","e">>) \/ HasMethodLiteral(js_content, <<"d","e","l","e","t","e">>)
  THEN <<"D","E","L","E","T","E">>
  ELSE <<"G","E","T">>

\* `for path in paths` (lines 155-166)
\* lines 156-166 for one path
EndpointOfPath(full_url, js_content, domain) ==
  IF is_valid_url(full_url, domain)
  THEN << [url |-> full_url, method |-> InferMethod(js_content)] >>
  ELSE <<>>

RECURSIVE EndpointsOfPaths(_, _, _)
EndpointsOfPaths(paths, js_content, base_url) ==
  IF Len(paths) = 0 THEN <<>>
  ELSE EndpointOfPath(urljoin(base_url, Strip(paths[1], Quotes)), js_content,
                      urlparse(base_url).netloc)
       \o EndpointsOfPaths(Tail(paths), js_content, base_url)

extract_endpoints_from_js(js_content, base_url) ==
  EndpointsOfPaths(FindPaths(js_content, 1) \o FindQuotedPaths(js_content, 1),
                   js_content, base_url)

(***************************************************************************)
(* Frontier Manager: link extraction (lines 262-273)                       *)
(***************************************************************************)

\* x in list
InSeq(x, seq) == \E i \in 1..Len(seq) : seq[i] = x

\* `for link in links`: hrefs are the href attributes in document order
\* ("" for an element without one).
\* line 270 without `full_url not in visited_urls`: the enqueueing
\* FrontierDisjointVisitedGrows does not hold of
EnqueueLinkVisited(parsed_href, full_url, queue, visited, domain) ==
  IF /\ Contains(parsed_href.netloc, domain)
     /\ is_valid_url(full_url, domain)
     /\ ~InSeq(full_url, queue)
  THEN Append(queue, full_url)
  ELSE queue

\* lines 266-271 without the test `full_url not in urls_to_visit`: the
\* enqueueing FrontierWithoutDuplicates does not hold of
EnqueueLinkQueued(parsed_href, full_url, queue, visited, domain) ==
  IF /\ Contains(parsed_href.netloc, domain)
     /\ is_valid_url(full_url, domain)
     /\ full_url \notin visited
  THEN Append(queue, full_url)
  ELSE queue

\* lines 266-271 for one href that is not empty
EnqueueLink(parsed_href, full_url, queue, visited, domain) ==
  IF /\ Contains(parsed_href.netloc, domain)
     /\ is_valid_url(full_url, domain)
     /\ full_url \notin visited
     /\ ~InSeq(full_url, queue)
  THEN Append(queue, full_url)
  ELSE queue

\* queue after the link, or "raised" when urlparse(href) raises
AfterLink(href, parsed_href, queue, visited, page_url, domain) ==
  IF Len(href) = 0 THEN queue
  ELSE IF parsed_href.error THEN "raised"
  ELSE EnqueueLink(parsed_href, urljoin(page_url, href), queue, visited, domain)

RECURSIVE EnqueueLinks(_, _, _, _, _)
EnqueueRest(hrefs, queue, after, visited, page_url, domain) ==
  IF after = "raised" THEN queue
  ELSE EnqueueLinks(hrefs, after, visited, page_url, domain)

EnqueueLinks(hrefs, queue, visited, page_url, domain) ==
  IF Len(hrefs) = 0 THEN queue
  ELSE EnqueueRest(Tail(hrefs), queue,
                   AfterLink(hrefs[1], urlparse(hrefs[1]), queue, visited,
                             page_url, domain),
                   visited, page_url, domain)

(***************************************************************************)
(* Aggregator (lines 289-294)                                              *)
(***************************************************************************)

RECURSIVE Deduplicate(_, _, _)
\* line 293 without seen_urls.add: the aggregation AggregatorKeepsFirst
\* does not hold of
DeduplicateRestUnseen(found, endpoint, keep, seen_urls, domain) ==
  IF keep
  THEN <<endpoint>> \o Deduplicate(found, seen_urls, domain)
  ELSE Deduplicate(found, seen_urls, domain)

\* lines 292-294 for one endpoint, kept or not
DeduplicateRest(found, endpoint, keep, seen_urls, domain) ==
  IF keep
  THEN <<endpoint>> \o Deduplicate(found, seen_urls \cup {endpoint.url}, domain)
  ELSE Deduplicate(found, seen_urls, domain)

Deduplicate(found, seen_urls, domain) ==
  IF Len(found) = 0 THEN <<>>
  ELSE DeduplicateRest(Tail(found), found[1],
                       found[1].url \notin seen_urls
                         /\ is_valid_url(found[1].url, domain),
                       seen_urls, domain)

(***************************************************************************)
(* Output Encoder (lines 295-319) and main's arguments (lines 338-351)     *)
(***************************************************************************)

Json == <<"j", "s", "o", "n">>

Txt == <<"t", "x", "t">>

Csv == <<"c", "s", "v">>

\* output_file.split('.')[-1].lower() if '.' in output_file else 'json'
FormatOfPath(output_file) ==
  IF Find(output_file, ".") > 0
  THEN LET parts == Split(output_file, ".") IN lower(parts[Len(parts)])
  ELSE Json

\* main, lines 349-351
MainOutputFormat(output, format) ==
  LET parts == Split(output, ".")
      ext == lower(parts[Len(parts)])
  IN IF ext \in {Json, Txt, Csv} THEN ext ELSE format

\* What the file holds after a write in `format`: json.dump of the list, one
\* URL per line, or csv rows with json.dumps of the nested fields.
Encode(format, kept) ==
  IF format = Json THEN [format |-> Json, data |-> kept]
  ELSE IF format = Txt
  THEN [format |-> Txt,
        data |-> [i \in 1..Len(kept) |-> kept[i].url]]
  ELSE [format |-> Csv,
        data |-> << <<"URL", "Method", "Body Params", "Extra Headers">> >> \o
                 [i \in 1..Len(kept) |->
                    << kept[i].url,
                       kept[i].method,
                       JsonText(kept[i].body_params),
                       JsonText(PyDict(kept[i].extra_headers)) >>]]

\* s.find(sub) for a string sub, 1-based; 0 when there is none
FindSub(s, sub) ==
  IF Contains(s, sub)
  THEN CHOOSE i \in 1..(Len(s) + 1) :
         MatchAt(s, i, sub) /\ \A j \in 1..(i - 1) : ~MatchAt(s, j, sub)
  ELSE 0

ColonSpace == <<":", " ">>

\* main, lines 338-346: the headers dict, or "invalid" for the argument
\* that header.split(": ", 1) does not split in two
RECURSIVE ParseHeaders(_, _)
ParseHeaders(header_args, extra_headers) ==
  IF Len(header_args) = 0 THEN [ok |-> TRUE, headers |-> extra_headers]
  ELSE LET header == header_args[1]
           i == FindSub(header, ColonSpace)
       IN IF i = 0 THEN [ok |-> FALSE, headers |-> extra_headers]
          ELSE ParseHeaders(Tail(header_args),
                            DictSet(extra_headers, Upto(header, i), From(header, i + 2)))

(***************************************************************************)
(* The site, the browser and the command line the model draws from         *)
(***************************************************************************)

\* the largest --max-pages drawn
MaxPages == 3

\* the most links one page shows
MaxLinks == 2

\* the most entries one drained network log holds
MaxLog == 2

\* the most forms one page shows
MaxForms == 1

SeedUrl == <<"h","t","t","p",":","/","/","a",".","c","o","/">>

PageB == <<"h","t","t","p",":","/","/","a",".","c","o","/","b">>

PageC == <<"h","t","t","p",":","/","/","a",".","c","o","/","c">>

StyleUrl == <<"h","t","t","p",":","/","/","a",".","c","o","/","s",".","c","s","s">>

OffsiteUrl == <<"h","t","t","p",":","/","/","b",".","i","o","/">>

ApiUrl == <<"h","t","t","p",":","/","/","a",".","c","o","/","a","p","i">>

\* a script file of the site
ScriptUrl == <<"h","t","t","p",":","/","/","a",".","c","o","/","a","p","p",".","j","s">>

\* URLs that end in .js outside the path
JsQueryUrl1 == <<"h","t","t","p",":","/","/","a",".","c","o","?","f","=","x",".","j","s">>

JsQueryUrl2 == <<"h","t","t","p",":","/","/","a",".","c","o","/","?","f","=","y",".","j","s">>

\* one entry of driver.get_log("performance") whose message text is the
\* JSON encoding of {"message": message}
Entry(message) ==
  PyDict([message |-> JsonText(PyDict([message |-> message]))])

RequestEvent(request) ==
  PyDict([method |-> PyStr(RequestWillBeSent),
          params |-> PyDict([request |-> request])])

Get == PyStr(<<"G", "E", "T">>)

Post == PyStr(<<"P", "O", "S", "T">>)

\* the headers of a request as the log shows them: Host, User-Agent,
\* content-type (a name the browser reports in lower case) and X-Api-Key
BrowserHeaders ==
  [k \in {<<"H","o","s","t">>, <<"U","s","e","r","-","A","g","e","n","t">>,
          <<"c","o","n","t","e","n","t","-","t","y","p","e">>, <<"X","-","A","p","i","-","K","e","y">>} |-> <<"v">>]

LogEntries ==
  << \* 1: GET ApiUrl with the headers of BrowserHeaders
     Entry(RequestEvent(PyDict([url |-> PyStr(ApiUrl), method |-> Get,
                                headers |-> PyDict(BrowserHeaders)]))),
     \* 2: POST ApiUrl with a JSON body and no headers key
     Entry(RequestEvent(PyDict([url |-> PyStr(ApiUrl), method |-> Post,
                                postData |-> JsonText(PyDict([q |-> PyInt(1)]))]))),
     \* 3: the request for a script file of the site
     Entry(RequestEvent(PyDict([url |-> PyStr(ScriptUrl), method |-> Get,
                                headers |-> PyDict(EmptyDict)]))),
     \* 4, 5: requests whose URL ends in .js in the query string
     Entry(RequestEvent(PyDict([url |-> PyStr(JsQueryUrl1), method |-> Get,
                                headers |-> PyDict(EmptyDict)]))),
     Entry(RequestEvent(PyDict([url |-> PyStr(JsQueryUrl2), method |-> Get,
                                headers |-> PyDict(EmptyDict)]))),
     \* 6: another event
     Entry(PyDict([method |-> PyStr(<<"N","e","t","w","o","r","k",".","r","e","s","p","o","n","s","e","R","e","c","e","i","v","e","d">>),
                   params |-> PyDict(EmptyDict)])),
     \* 7: a message that is not JSON
     PyDict([message |-> BadJsonText]),
     \* 8: a request event without params
     Entry(PyDict([method |-> PyStr(RequestWillBeSent)])),
     \* 9: a request event whose params is a str
     Entry(PyDict([method |-> PyStr(RequestWillBeSent), params |-> PyStr(<<"x">>)])) >>

TextInput(name) ==
  [usable |-> TRUE, name |-> name, type |-> "text", tag_name |-> "input",
   value |-> <<>>, options |-> <<>>]

Forms ==
  << \* 1: action="/submit", no method, one text input named q
     [displayed |-> TRUE, stale |-> FALSE, action |-> <<"/","s","u","b","m","i","t">>, method |-> <<>>,
      inputs |-> <<TextInput("q")>>, selects |-> <<>>, checkboxes |-> <<>>],
     \* 2: method="get" to ApiUrl, no fields
     [displayed |-> TRUE, stale |-> FALSE, action |-> ApiUrl, method |-> <<"g", "e", "t">>,
      inputs |-> <<>>, selects |-> <<>>, checkboxes |-> <<>>],
     \* 3: a form that is not displayed
     [displayed |-> FALSE, stale |-> FALSE, action |-> <<"/","s","u","b","m","i","t">>, method |-> <<>>,
      inputs |-> <<>>, selects |-> <<>>, checkboxes |-> <<>>],
     \* 4: a form whose attribute reads raise
     [displayed |-> TRUE, stale |-> TRUE, action |-> <<>>, method |-> <<>>,
      inputs |-> <<>>, selects |-> <<>>, checkboxes |-> <<>>],
     \* 5: a form posting to another site
     [displayed |-> TRUE, stale |-> FALSE, action |-> <<"h","t","t","p",":","/","/","b",".","i","o","/","l","o","g","i","n">>, method |-> <<>>,
      inputs |-> <<>>, selects |-> <<>>, checkboxes |-> <<>>] >>

\* texts of script files
JsContents ==
  << <<"f","e","t","c","h","(","\"","/","a","p","i","/","v","1","/","u","s","e","r","s","\"",")">>,
     <<"$",".","p","o","s","t","(","\"","/","a","p","i","/","v","1","/","i","t","e","m","s","\"",")">>,
     <<"v","a","r"," ","x"," ","="," ","1",";">> >>

\* a response of requests.get: it raised, or a status and a text index
Responses ==
  {[raised |-> TRUE, status_code |-> 0, text |-> 0],
   [raised |-> FALSE, status_code |-> 404, text |-> 0]}
  \cup {[raised |-> FALSE, status_code |-> 200, text |-> i] : i \in 1..Len(JsContents)}

\* values of --header (None is the empty list)
HeaderArgs ==
  { <<>>,
    << <<"X","-","T","o","k","e","n",":"," ","t">> >>,
    << <<"o","o","p","s">> >> }

\* values of --output
OutputArgs ==
  { <<"e","n","d","p","o","i","n","t","s",".","j","s","o","n">>,
    <<"o","u","t">>,
    <<"o","u","t",".","c","s","v">>,
    <<"o","u","t",".","T","X","T">>,
    <<"o","u","t",".","x","m","l">> }

\* the choices of --format
FormatArgs == {Json, Txt, Csv}

\* sequences over S of length at most n
SeqUpTo(S, n) == UNION {[1..k -> S] : k \in 0..n}

\* the elements of `table` at the indices ix
Pick(table, ix) == [i \in 1..Len(ix) |-> table[ix[i]]]

\* extract_endpoints_from_js(response.text, url) for the texts the site
\* serves; url is SeedUrl in every run
JsEndpoints ==
  [i \in 1..Len(JsContents) |-> extract_endpoints_from_js(JsContents[i], SeedUrl)]

XToken == << <<"X","-","T","o","k","e","n",":"," ","t">> >>

DefaultOutput == <<"e","n","d","p","o","i","n","t","s",".","j","s","o","n">>

\* The sites crawled. "linked" is three pages that link to each other, to
\* themselves and to another site, with little traffic; "busy" is one page
\* with forms, a full network log and script files; "plain" is one page with
\* at most one form and one request.
Sites == {"linked", "busy", "plain"}

\* the lists of href attributes a page of the site may show; <<>> is an
\* element without the attribute
SiteHrefs(s) ==
  IF s = "linked" THEN SeqUpTo({SeedUrl, PageB, PageC, OffsiteUrl}, MaxLinks)
  ELSE IF s = "busy" THEN {<<>>, <<StyleUrl>>, << <<>> >>}
  ELSE {<<>>}

\* what driver.find_elements gives for "form" on a page of the site
SiteForms(s) ==
  IF s = "linked" THEN {<<>>}
  ELSE IF s = "busy" THEN {Pick(Forms, ix) : ix \in SeqUpTo(1..Len(Forms), MaxForms)}
  ELSE {<<>>, <<Forms[1]>>}

\* driver.current_url after the clicks of a page at page_url
SiteBaseUrls(s, page_url) ==
  IF s = "busy" THEN {page_url, OffsiteUrl} ELSE {page_url}

\* what driver.get_log("performance") gives on a page of the site
SiteLogs(s) ==
  IF s = "linked" THEN {<<>>, <<LogEntries[1]>>}
  ELSE IF s = "busy" THEN {Pick(LogEntries, ix) : ix \in SeqUpTo(1..Len(LogEntries), MaxLog)}
  ELSE {<<>>, <<LogEntries[4]>>}

\* the request for the document at url, as the log shows it
DocumentRequest(url) ==
  Entry(RequestEvent(PyDict([url |-> PyStr(url), method |-> Get,
                             headers |-> PyDict(EmptyDict)])))

\* what the browser logged of a driver.get(url) that raised: nothing, or the
\* request it sent before the load failed
FailedLoadLogs(url) == {<<>>, <<DocumentRequest(url)>>}

\* the command lines run against each site
Runs ==
  [site : {"linked"}, header : {<<>>}, max_pages : 0..MaxPages,
   output : {DefaultOutput}, format : {Json}]
  \cup
  [site : {"busy"}, header : {XToken}, max_pages : {1},
   output : {DefaultOutput}, format : {Json}]
  \cup
  [site : {"plain"}, header : HeaderArgs, max_pages : {1},
   output : OutputArgs, format : FormatArgs]

\* the loop test with the cap taken inclusively: the loop VisitedWithinCap
\* does not hold of
LoopTestInclusive(queue, visited, max_pages) ==
  Len(queue) > 0 /\ Cardinality(visited) <= max_pages

\* line 189: `while queue and len(visited) < max_pages`
LoopTest(queue, visited, max_pages) ==
  Len(queue) > 0 /\ Cardinality(visited) < max_pages

\* the endpoints of lines 279-286
JsDescriptors(js_endpoints, extra_headers) ==
  [i \in 1..Len(js_endpoints) |->
     [url |-> js_endpoints[i].url,
      method |-> PyStr(js_endpoints[i].method),
      body_params |-> extract_parameters(None),
      extra_headers |-> extra_headers]]

(***************************************************************************)
(* Direct calls of is_valid_url and extract_endpoints_from_js: the         *)
(* arguments they are called with                                          *)
(***************************************************************************)

\* seeds whose netloc is the configured domain (line 176)
Seeds == {SeedUrl, <<"h","t","t","p","s",":","/","/","w","w","w",".","a",".","c","o","/","d","o","c","s">>}

SeedDomains == {urlparse(seed).netloc : seed \in Seeds}

UrlSchemes == {<<"h","t","t","p">>, <<"h","t","t","p","s">>, <<"f","t","p">>}

\* the configured host, subdomains of it, and hosts that only hold its text
UrlHosts == {<<"a",".","c","o">>, <<"w","w","w",".","a",".","c","o">>, <<"b",".","i","o">>, <<"x","a",".","c","o">>, <<"a",".","c","o",".","b",".","i","o">>}

UrlPaths == {<<>>, <<"/">>, <<"/","a","p","i">>, <<"/","a","p","i","/","v","1","_","x","-","y">>, <<"/","a","p","p",".","j","s">>, <<"/","a",".","b">>}

\* a query value one character longer than is_valid_url allows
LongValue == [i \in 1..(MaxQueryValueLen + 1) |-> "a"]

UrlQueries ==
  {<<>>, <<"?","q","=","1">>, <<"?","q","=","a","-","b">>, <<"?","q","=","a","%","2","0","b">>, <<"?","q","=">> \o LongValue}

\* the candidate URLs: scheme://host path query, the empty string and a
\* URL urlparse raises ValueError on
CandidateUrls ==
  {scheme \o <<":","/","/">> \o host \o path \o query :
     scheme \in UrlSchemes, host \in UrlHosts, path \in UrlPaths, query \in UrlQueries}
  \cup {<<>>, <<"h","t","t","p",":","/","/","[","a",".","c","o","/">>}

\* statements a script file is made of
JsPieces ==
  << <<"f","e","t","c","h","(","\"","/","a","p","i","/","a","\"",")">>,
     <<"$",".","p","o","s","t","(","\"","/","a","p","i","/","b","\"",",","d",")">>,
     <<"x",".","P","U","T"," ","(","\"","/","a","p","i","/","c","\"",")">>,
     <<"m","e","t","h","o","d",":"," ","'","D","E","L","E","T","E","'">>,
     <<"a",".","d","e","l","e","t","e","(","\"","/","a","p","i","/","d","\"",")">>,
     <<"v","a","r"," ","u","=","\"","/","s","t","a","t","i","c","/","a","p","p",".","j","s","\"">> >>

MaxPieces == 2

RECURSIVE JoinPieces(_)
JoinPieces(ix) ==
  IF Len(ix) = 0 THEN <<>>
  ELSE JsPieces[ix[1]] \o <<";">> \o JoinPieces(Tail(ix))

\* the script texts: up to MaxPieces statements
JsTexts == {JoinPieces(ix) : ix \in SeqUpTo(1..Len(JsPieces), MaxPieces)}

NoCall == [fn |-> "none"]

NoResult == [done |-> FALSE]

Returned(value) == [done |-> TRUE, val |-> value]

(***************************************************************************)
(* State                                                                   *)
(***************************************************************************)

VARIABLES
  pc,               \* the statement the program is at
  site,             \* the site crawled
  args,             \* the parsed command line
  headers,          \* main's headers dict
  output_format,    \* main's output_format
  driver,           \* "none", "open" or "quit"
  quits,            \* calls of driver.quit()
  endpoints, visited_urls, urls_to_visit, base_domain, js_urls,
  current_url,
  logs,             \* the log drained on the current page
  links,            \* the href attributes read on the current page
  navigated,        \* the bag of URLs passed to driver.get
  performance_log,  \* what the browser logged since the last get_log
  js_pending,       \* the js_urls the loop of line 274 has yet to reach
  fetches,          \* the calls of requests.get so far: URL and response
  unique_endpoints,
  file,             \* the output file: None, or what was written to it
  save_error,       \* the exception logged at line 319, "" when none
  retval,           \* what crawl_website returned
  report,           \* what main printed after the crawl
  exit_status,      \* the process's exit status, -1 while it runs
  call,             \* a direct call of a function: its name and arguments
  result            \* what the direct call returned

vars ==
  <<pc, site, args, headers, output_format, driver, quits, endpoints,
    visited_urls, urls_to_visit, base_domain, js_urls, current_url, logs,
    links, navigated, performance_log, js_pending, fetches,
    unique_endpoints, file,
    save_error, retval, report, exit_status, call, result>>

crawl_vars ==
  <<endpoints, visited_urls, urls_to_visit, base_domain, js_urls, current_url,
    logs, links, navigated, performance_log, js_pending, fetches,
    unique_endpoints>>

main_vars == <<site, args, headers, output_format>>

out_vars == <<file, save_error, retval, report, exit_status>>

call_vars == <<call, result>>

Init ==
  /\ pc = "main"
  /\ \E run \in Runs :
       /\ site = run.site
       /\ args = [url |-> SeedUrl, header |-> run.header,
                  max_pages |-> run.max_pages, output |-> run.output,
                  format |-> run.format]
  /\ headers = EmptyDict
  /\ output_format = <<>>
  /\ driver = "none"
  /\ quits = 0
  /\ endpoints = <<>>
  /\ visited_urls = {}
  /\ urls_to_visit = <<>>
  /\ base_domain = <<>>
  /\ js_urls = {}
  /\ current_url = <<>>
  /\ logs = <<>>
  /\ links = <<>>
  /\ navigated = EmptyBag
  /\ performance_log = <<>>
  /\ js_pending = {}
  /\ fetches = <<>>
  /\ unique_endpoints = <<>>
  /\ file = None
  /\ save_error = ""
  /\ retval = <<>>
  /\ report = ""
  /\ exit_status = -1
  /\ call = NoCall
  /\ result = NoResult

(***************************************************************************)
(* main, up to the call of crawl_website                                   *)
(***************************************************************************)

\* lines 336-351
Main ==
  /\ pc = "main"
  /\ LET parsed == ParseHeaders(args.header, EmptyDict)
     IN IF parsed.ok
        THEN /\ headers' = parsed.headers
             /\ output_format' = MainOutputFormat(args.output, args.format)
             /\ pc' = "get_driver"
             /\ UNCHANGED <<report, exit_status>>
        ELSE /\ report' = "Invalid header format"
             /\ exit_status' = 0
             /\ pc' = "exit"
             /\ UNCHANGED <<headers, output_format>>
  /\ UNCHANGED <<site, args, driver, quits, file, save_error, retval>>
  /\ UNCHANGED call_vars
  /\ UNCHANGED crawl_vars

(***************************************************************************)
(* crawl_website                                                           *)
(***************************************************************************)

\* lines 172-183: get_driver returns a driver, or raises out of
\* crawl_website and main
GetDriver ==
  /\ pc = "get_driver"
  /\ \E available \in BOOLEAN :
       IF available
       THEN /\ driver' = "open"
            /\ endpoints' = <<>>
            /\ visited_urls' = {}
            /\ urls_to_visit' = <<args.url>>
            /\ base_domain' = urlparse(args.url).netloc
            /\ js_urls' = {}
            /\ pc' = "setup"
            /\ UNCHANGED exit_status
       ELSE /\ exit_status' = 1
            /\ pc' = "exit"
            /\ UNCHANGED <<driver, endpoints, visited_urls, urls_to_visit,
                           base_domain, js_urls>>
  /\ UNCHANGED <<quits, current_url, logs, links, navigated, performance_log, js_pending,
                 fetches, unique_endpoints, file, save_error, retval, report>>
  /\ UNCHANGED main_vars
  /\ UNCHANGED call_vars

\* lines 186-187 without the finally clause: the exit
\* DriverReleasedOnce does not hold of
EnableNetworkLeak ==
  /\ pc = "setup"
  /\ \E raised \in BOOLEAN :
       IF raised
       THEN /\ retval' = endpoints
            /\ pc' = "report"
       ELSE /\ pc' = "loop"
            /\ UNCHANGED retval
  /\ UNCHANGED <<driver, quits, file, save_error, report, exit_status>>
  /\ UNCHANGED main_vars
  /\ UNCHANGED call_vars
  /\ UNCHANGED crawl_vars

\* lines 186-187; an exception reaches the except of line 321
EnableNetwork ==
  /\ pc = "setup"
  /\ \E raised \in BOOLEAN :
       IF raised
       THEN /\ retval' = endpoints
            /\ pc' = "finally"
       ELSE /\ pc' = "loop"
            /\ UNCHANGED retval
  /\ UNCHANGED <<driver, quits, file, save_error, report, exit_status>>
  /\ UNCHANGED main_vars
  /\ UNCHANGED call_vars
  /\ UNCHANGED crawl_vars

\* lines 189-192: the loop test, the pop and the visited test; the page's
\* log and links are gone with the iteration
LoopStep ==
  /\ pc = "loop"
  /\ IF LoopTest(urls_to_visit, visited_urls, args.max_pages)
     THEN /\ current_url' = Head(urls_to_visit)
          /\ urls_to_visit' = Tail(urls_to_visit)
          /\ pc' = IF Head(urls_to_visit) \in visited_urls THEN "loop" ELSE "navigate"
          /\ UNCHANGED js_pending
     ELSE /\ js_pending' = js_urls
          /\ pc' = "fetch_js"
          /\ UNCHANGED <<current_url, urls_to_visit>>
  /\ logs' = <<>>
  /\ links' = <<>>
  /\ UNCHANGED <<endpoints, visited_urls, base_domain, js_urls, navigated, performance_log,
                 fetches, unique_endpoints>>
  /\ UNCHANGED <<driver, quits>>
  /\ UNCHANGED main_vars
  /\ UNCHANGED call_vars
  /\ UNCHANGED out_vars

\* lines 193-199 with a failed driver.get ending the loop: the navigation
\* LoopTerminates does not hold of
NavigateFailureEnds ==
  /\ pc = "navigate"
  /\ navigated' = navigated (+) SetToBag({current_url})
  /\ \E loaded \in BOOLEAN :
       IF loaded
       THEN /\ visited_urls' = visited_urls \cup {current_url}
            /\ pc' = "interact"
            /\ UNCHANGED performance_log
       ELSE /\ \E logged \in FailedLoadLogs(current_url) :
                 performance_log' = performance_log \o logged
            /\ pc' = "fetch_js"
            /\ UNCHANGED visited_urls
  /\ UNCHANGED <<endpoints, urls_to_visit, base_domain, js_urls, current_url,
                 logs, links, js_pending, fetches, unique_endpoints>>
  /\ UNCHANGED <<driver, quits>>
  /\ UNCHANGED main_vars
  /\ UNCHANGED call_vars
  /\ UNCHANGED out_vars

\* lines 193-199: driver.get(current_url) returns or raises; when it
\* raises, the browser may have sent the request for the page already
Navigate ==
  /\ pc = "navigate"
  /\ navigated' = navigated (+) SetToBag({current_url})
  /\ \E loaded \in BOOLEAN :
       IF loaded
       THEN /\ visited_urls' = visited_urls \cup {current_url}
            /\ pc' = "interact"
            /\ UNCHANGED performance_log
       ELSE /\ \E logged \in FailedLoadLogs(current_url) :
                 performance_log' = performance_log \o logged
            /\ pc' = "loop"
            /\ UNCHANGED visited_urls
  /\ UNCHANGED <<endpoints, urls_to_visit, base_domain, js_urls, current_url,
                 logs, links, js_pending, fetches, unique_endpoints>>
  /\ UNCHANGED <<driver, quits>>
  /\ UNCHANGED main_vars
  /\ UNCHANGED call_vars
  /\ UNCHANGED out_vars

\* lines 200-238: the clicks, the forms, the search inputs and the handler
\* elements. Only the forms change the program's state; an exception of a
\* find_elements call before them skips them.
Interact ==
  /\ pc = "interact"
  /\ \E raised \in BOOLEAN :
     \E forms \in SiteForms(site) :
     \E base_url \in SiteBaseUrls(site, current_url) :
       IF raised
       THEN forms = <<>> /\ base_url = current_url /\ UNCHANGED endpoints
       ELSE endpoints' = ProcessForms(forms, endpoints, base_url, base_domain,
                                      headers)
  /\ pc' = "capture"
  /\ UNCHANGED <<visited_urls, urls_to_visit, base_domain, js_urls, current_url,
                 logs, links, navigated, performance_log, js_pending, fetches, unique_endpoints>>
  /\ UNCHANGED <<driver, quits>>
  /\ UNCHANGED main_vars
  /\ UNCHANGED call_vars
  /\ UNCHANGED out_vars

\* lines 239-261: driver.get_log raises and no log is drained, or it gives
\* what the browser logged since the last call, the page's traffic last,
\* and the log is processed
Capture ==
  /\ pc = "capture"
  /\ \/ /\ logs' = <<>>
        /\ UNCHANGED <<endpoints, js_urls, performance_log>>
     \/ \E drained \in SiteLogs(site) :
          LET r == ProcessLog(performance_log \o drained,
                              [endpoints |-> endpoints, js_urls |-> js_urls],
                              base_domain)
          IN /\ logs' = performance_log \o drained
             /\ performance_log' = <<>>
             /\ endpoints' = r.endpoints
             /\ js_urls' = r.js_urls
  /\ pc' = "links"
  /\ UNCHANGED <<visited_urls, urls_to_visit, base_domain, current_url,
                 links, navigated, js_pending, fetches, unique_endpoints>>
  /\ UNCHANGED <<driver, quits>>
  /\ UNCHANGED main_vars
  /\ UNCHANGED call_vars
  /\ UNCHANGED out_vars

\* lines 262-273: an exception of find_elements or get_attribute ends the
\* loop over the links, the links before it are enqueued
ExtractLinks ==
  /\ pc = "links"
  /\ \E hrefs \in SiteHrefs(site) :
       /\ links' = hrefs
       /\ urls_to_visit' = EnqueueLinks(hrefs, urls_to_visit, visited_urls,
                                        current_url, base_domain)
  /\ pc' = "loop"
  /\ UNCHANGED <<endpoints, visited_urls, base_domain, js_urls, current_url,
                 logs, navigated, performance_log, js_pending, fetches, unique_endpoints>>
  /\ UNCHANGED <<driver, quits>>
  /\ UNCHANGED main_vars
  /\ UNCHANGED call_vars
  /\ UNCHANGED out_vars

\* lines 274-288 with the try around the loop instead of inside it: the
\* fetching ScriptsFetchedOnceAfterLoop does not hold of
FetchJsAbort ==
  /\ pc = "fetch_js"
  /\ js_pending # {}
  /\ \E js_url \in js_pending : \E got \in Responses :
       /\ js_pending' = IF got.raised THEN {} ELSE js_pending \ {js_url}
       /\ fetches' = Append(fetches, [url |-> js_url, response |-> got])
       /\ endpoints' =
            IF ~got.raised /\ got.status_code = 200
            THEN endpoints \o JsDescriptors(JsEndpoints[got.text], headers)
            ELSE endpoints
  /\ UNCHANGED pc
  /\ UNCHANGED <<visited_urls, urls_to_visit, base_domain, js_urls, current_url,
                 logs, links, navigated, performance_log, unique_endpoints>>
  /\ UNCHANGED <<driver, quits>>
  /\ UNCHANGED main_vars
  /\ UNCHANGED call_vars
  /\ UNCHANGED out_vars

\* lines 274-288: one iteration of `for js_url in js_urls`
FetchJs ==
  /\ pc = "fetch_js"
  /\ js_pending # {}
  /\ \E js_url \in js_pending : \E got \in Responses :
       /\ js_pending' = js_pending \ {js_url}
       /\ fetches' = Append(fetches, [url |-> js_url, response |-> got])
       /\ endpoints' =
            IF ~got.raised /\ got.status_code = 200
            THEN endpoints \o JsDescriptors(JsEndpoints[got.text], headers)
            ELSE endpoints
  /\ UNCHANGED pc
  /\ UNCHANGED <<visited_urls, urls_to_visit, base_domain, js_urls, current_url,
                 logs, links, navigated, performance_log, unique_endpoints>>
  /\ UNCHANGED <<driver, quits>>
  /\ UNCHANGED main_vars
  /\ UNCHANGED call_vars
  /\ UNCHANGED out_vars

\* lines 289-294
Aggregate ==
  /\ pc = "fetch_js"
  /\ js_pending = {}
  /\ unique_endpoints' = Deduplicate(endpoints, {}, base_domain)
  /\ pc' = "save"
  /\ UNCHANGED <<endpoints, visited_urls, urls_to_visit, base_domain, js_urls,
                 current_url, logs, links, navigated, performance_log, js_pending, fetches>>
  /\ UNCHANGED <<driver, quits>>
  /\ UNCHANGED main_vars
  /\ UNCHANGED call_vars
  /\ UNCHANGED out_vars

\* lines 295-320: open() raises, the format is not supported, or the file
\* is written; every exception is logged and the list is returned
Save ==
  /\ pc = "save"
  /\ LET format == FormatOfPath(args.output)
     IN IF format \notin {Json, Txt, Csv}
        THEN save_error' = "ValueError" /\ UNCHANGED file
        ELSE \E opened \in BOOLEAN :
               IF opened
               THEN /\ file' = Encode(format, unique_endpoints)
                    /\ UNCHANGED save_error
               ELSE save_error' = "OSError" /\ UNCHANGED file
  /\ retval' = unique_endpoints
  /\ pc' = "finally"
  /\ UNCHANGED <<driver, quits, report, exit_status>>
  /\ UNCHANGED main_vars
  /\ UNCHANGED call_vars
  /\ UNCHANGED crawl_vars

\* lines 324-325
Finally ==
  /\ pc = "finally"
  /\ driver' = "quit"
  /\ quits' = quits + 1
  /\ pc' = "report"
  /\ UNCHANGED <<file, save_error, retval, report, exit_status>>
  /\ UNCHANGED main_vars
  /\ UNCHANGED call_vars
  /\ UNCHANGED crawl_vars

(***************************************************************************)
(* main, after crawl_website returned (lines 355-364)                      *)
(***************************************************************************)

Report ==
  /\ pc = "report"
  /\ report' = IF Len(retval) > 0 THEN "Captured endpoints:" ELSE "No endpoints captured."
  /\ exit_status' = 0
  /\ pc' = "exit"
  /\ UNCHANGED <<driver, quits, file, save_error, retval>>
  /\ UNCHANGED main_vars
  /\ UNCHANGED call_vars
  /\ UNCHANGED crawl_vars

Next ==
  \/ Main
  \/ GetDriver
  \/ EnableNetwork
  \/ LoopStep
  \/ Navigate
  \/ Interact
  \/ Capture
  \/ ExtractLinks
  \/ FetchJs
  \/ Aggregate
  \/ Save
  \/ Finally
  \/ Report

Spec == Init /\ [][Next]_vars

\* every statement of the loop's body returns or raises, and the loop takes
\* its next step
LiveSpec ==
  /\ Spec
  /\ WF_vars(LoopStep)
  /\ WF_vars(Navigate)
  /\ WF_vars(Interact)
  /\ WF_vars(Capture)
  /\ WF_vars(ExtractLinks)

(***************************************************************************)
(* The functions called on their own                                       *)
(***************************************************************************)

\* the state of a process that calls one function and does not crawl
CallInit ==
  /\ pc = "call"
  /\ site = "plain"
  /\ args = [url |-> SeedUrl, header |-> <<>>, max_pages |-> 0,
             output |-> DefaultOutput, format |-> Json]
  /\ headers = EmptyDict
  /\ output_format = <<>>
  /\ driver = "none"
  /\ quits = 0
  /\ endpoints = <<>>
  /\ visited_urls = {}
  /\ urls_to_visit = <<>>
  /\ base_domain = <<>>
  /\ js_urls = {}
  /\ current_url = <<>>
  /\ logs = <<>>
  /\ links = <<>>
  /\ navigated = EmptyBag
  /\ performance_log = <<>>
  /\ js_pending = {}
  /\ fetches = <<>>
  /\ unique_endpoints = <<>>
  /\ file = None
  /\ save_error = ""
  /\ retval = <<>>
  /\ report = ""
  /\ exit_status = -1
  /\ result = NoResult
  /\ \/ \E url \in CandidateUrls, domain \in SeedDomains :
          call = [fn |-> "is_valid_url", url |-> url, base_domain |-> domain]
     \/ \E js_content \in JsTexts :
          call = [fn |-> "extract_endpoints_from_js", js_content |-> js_content,
                  base_url |-> SeedUrl]

\* lines 42-71
CallIsValidUrl ==
  /\ pc = "call"
  /\ call.fn = "is_valid_url"
  /\ result' = Returned(is_valid_url(call.url, call.base_domain))
  /\ pc' = "returned"
  /\ UNCHANGED <<call, driver, quits>>
  /\ UNCHANGED main_vars
  /\ UNCHANGED crawl_vars
  /\ UNCHANGED out_vars

\* lines 146-168
CallExtractEndpoints ==
  /\ pc = "call"
  /\ call.fn = "extract_endpoints_from_js"
  /\ result' = Returned(extract_endpoints_from_js(call.js_content, call.base_url))
  /\ pc' = "returned"
  /\ UNCHANGED <<call, driver, quits>>
  /\ UNCHANGED main_vars
  /\ UNCHANGED crawl_vars
  /\ UNCHANGED out_vars

CallNext ==
  \/ CallIsValidUrl
  \/ CallExtractEndpoints

CallSpec == CallInit /\ [][CallNext]_vars

(***************************************************************************)
(* Properties of the crawl                                                 *)
(***************************************************************************)

\* C1: in every reachable state the visited set holds at most --max-pages
\* URLs, whatever the cap, the links and the navigation failures.
VisitedWithinCap == Cardinality(visited_urls) <= args.max_pages

\* the loop ended on the cap with URLs left in the frontier
CapReachedFrontierLeft ==
  /\ pc = "fetch_js"
  /\ args.max_pages >= 2
  /\ Cardinality(visited_urls) = args.max_pages
  /\ Len(urls_to_visit) > 0

\* C2: no URL is passed to driver.get more than once during a crawl,
\* whether its navigation succeeded or failed.
NoUrlNavigatedTwice ==
  \A u \in BagToSet(navigated) : CopiesIn(u, navigated) <= 1

\* C3: no URL is in both the frontier and the visited set, and a URL once
\* in the visited set stays in it.
FrontierDisjointVisitedGrows ==
  /\ [](\A i \in 1..Len(urls_to_visit) : urls_to_visit[i] \notin visited_urls)
  /\ [][visited_urls \subseteq visited_urls']_vars

\* a page that links to a visited page and to a new one was processed
LinkToVisitedPageSeen ==
  /\ pc = "loop"
  /\ Cardinality(visited_urls) >= 2
  /\ \E i \in 1..Len(links) : links[i] \in visited_urls
  /\ Len(urls_to_visit) > 0

\* the index of the first descriptor of seq with the URL u
FirstWithUrl(seq, u) ==
  CHOOSE i \in 1..Len(seq) :
    seq[i].url = u /\ \A j \in 1..(i - 1) : seq[j].url # u

\* C4: the aggregator's output holds each distinct URL of the accumulated
\* descriptors exactly once, the descriptor kept for a URL is the first one
\* with that URL, and the kept descriptors are in the order of their first
\* occurrence.
AggregatorKeepsFirst ==
  pc = "save" =>
    /\ \A i \in 1..Len(endpoints) :
         Cardinality({k \in 1..Len(unique_endpoints) :
                        unique_endpoints[k].url = endpoints[i].url}) = 1
    /\ \A k \in 1..Len(unique_endpoints) :
         /\ \E i \in 1..Len(endpoints) : endpoints[i].url = unique_endpoints[k].url
         /\ unique_endpoints[k]
              = endpoints[FirstWithUrl(endpoints, unique_endpoints[k].url)]
    /\ \A k \in 1..Len(unique_endpoints) : \A m \in (k + 1)..Len(unique_endpoints) :
         FirstWithUrl(endpoints, unique_endpoints[k].url)
           < FirstWithUrl(endpoints, unique_endpoints[m].url)

\* descriptors with a repeated URL and differing methods were aggregated
\* into at least two kept ones
RepeatedUrlAggregated ==
  /\ pc = "save"
  /\ Len(unique_endpoints) >= 2
  /\ \E i \in 1..Len(endpoints) : \E j \in (i + 1)..Len(endpoints) :
       /\ endpoints[i].url = endpoints[j].url
       /\ endpoints[i].method # endpoints[j].method

\* the state a log is processed from when only its own yield matters
NothingYet == [endpoints |-> <<>>, js_urls |-> {}]

\* the entry raises nothing when it is processed
WellFormed(entry) == ProcessEntry(entry, NothingYet, base_domain).exc = ""

\* the entry is a well-formed Network.requestWillBeSent event
IsRequestEntry(entry) ==
  /\ WellFormed(entry)
  /\ entry.v.message.json.v.message.v.method = PyStr(RequestWillBeSent)

RequestUrlOf(entry) == entry.v.message.json.v.message.v.params.v.request.v.url.v

\* http or https, and the host is the seed's domain or a subdomain of it
InScope(u, parsed) ==
  /\ parsed.scheme \in {<<"h","t","t","p">>, <<"h","t","t","p","s">>}
  /\ parsed.netloc = base_domain \/ EndsWith(parsed.netloc, <<".">> \o base_domain)

\* C5: once a page's log is processed, the script URL set holds every
\* in-scope request URL ending in .js of a requestWillBeSent entry of that
\* log (here for logs all of whose entries are well-formed).
ScriptUrlsCollected ==
  (pc = "links" /\ \A i \in 1..Len(logs) : WellFormed(logs[i])) =>
    \A i \in 1..Len(logs) :
      (/\ IsRequestEntry(logs[i])
       /\ EndsWith(RequestUrlOf(logs[i]), DotJs)
       /\ InScope(RequestUrlOf(logs[i]), urlparse(RequestUrlOf(logs[i]))))
      => RequestUrlOf(logs[i]) \in js_urls

\* the statements before the loop of line 274
BeforeFetch ==
  {"main", "get_driver", "setup", "loop", "navigate", "interact", "capture", "links"}

\* the statements after it
AfterFetch == {"save", "finally", "report", "exit"}

FetchFailed(got) == got.raised \/ got.status_code # 200

\* C6: no script file is fetched before the visitation loop has ended;
\* after it every URL of the script URL set is fetched exactly once; a fetch
\* that fails or gives a non-200 status adds no descriptor and the
\* remaining script URLs are still fetched and their endpoints extracted.
ScriptsFetchedOnceAfterLoop ==
  /\ [](pc \in BeforeFetch => fetches = <<>>)
  /\ [](\A i \in 1..Len(fetches) :
          /\ fetches[i].url \in js_urls
          /\ \A j \in 1..Len(fetches) : fetches[j].url = fetches[i].url => j = i)
  /\ [](pc \in AfterFetch => {fetches[i].url : i \in 1..Len(fetches)} = js_urls)
  /\ [][Len(fetches') = Len(fetches) + 1 =>
          /\ SubSeq(fetches', 1, Len(fetches)) = fetches
          /\ IF FetchFailed(fetches'[Len(fetches')].response)
             THEN endpoints' = endpoints
             ELSE endpoints' = endpoints \o
                    JsDescriptors(JsEndpoints[fetches'[Len(fetches')].response.text],
                                  headers)]_vars

\* of two script URLs the first fetch raised and the second gave endpoints
FetchAfterFailedFetch ==
  /\ pc = "save"
  /\ Len(fetches) = 2
  /\ fetches[1].response.raised
  /\ ~FetchFailed(fetches[2].response)
  /\ Len(endpoints) > 0
  /\ endpoints[Len(endpoints)] \in Range(JsDescriptors(JsEndpoints[fetches[2].response.text], headers))

\* tail is the end of seq
IsSuffix(tail, seq) ==
  /\ Len(tail) <= Len(seq)
  /\ SubSeq(seq, Len(seq) - Len(tail) + 1, Len(seq)) = tail

\* C7: a malformed entry of any shape is skipped without aborting the
\* processing of the page's log: every well-formed request entry of the log
\* is turned into a descriptor, so the page's descriptors are those of its
\* well-formed entries.
MalformedEntriesSkipped ==
  pc = "links" =>
    IsSuffix(ProcessLog(SelectSeq(logs, WellFormed), NothingYet, base_domain).endpoints,
             endpoints)

UnsupportedFormatFatal ==
  (/\ pc = "exit"
   /\ save_error = "ValueError"
   /\ FormatOfPath(args.output) \notin {Json, Txt, Csv})
  => /\ exit_status # 0
     /\ report # "Captured endpoints:"
     /\ file = None

\* C10: the file is written in the format of the output path's extension
\* when that is json, txt or csv, and in the format of --format otherwise.
FormatFromExtensionElseFlag ==
  /\ file # None => file.format = MainOutputFormat(args.output, args.format)
  /\ save_error # "ValueError"

(***************************************************************************)
(* Properties of is_valid_url and extract_endpoints_from_js                *)
(***************************************************************************)

IsValidUrlReturned == pc = "returned" /\ call.fn = "is_valid_url"

\* the host of a parsed URL is neither the domain nor a subdomain of it
OutsideDomain(parsed_url, domain) ==
  \/ parsed_url.error
  \/ /\ parsed_url.netloc # domain
     /\ ~EndsWith(parsed_url.netloc, <<".">> \o domain)

\* C11: is_valid_url returns false for every URL whose host is outside the
\* configured domain, for every domain derived from a seed.
OutsideDomainRejected ==
  (IsValidUrlReturned /\ OutsideDomain(urlparse(call.url), call.base_domain))
    => result.val = FALSE

\* the parsed URL has a query value that is too long or holds a character
\* other than alphanumerics, '=', '&', '%', '_'
HasBadQueryValue(parsed_url) ==
  /\ ~parsed_url.error
  /\ \E value \in Range(parse_qs_values(parsed_url.query)) : BadQueryValue(value)

\* C12: is_valid_url returns false for every URL with a query value longer
\* than 100 characters or with a disallowed character, whatever its path,
\* and it returns a boolean on every input.
BadQueryRejected ==
  IsValidUrlReturned =>
    /\ result.val \in BOOLEAN
    /\ HasBadQueryValue(urlparse(call.url)) => result.val = FALSE

ExtractReturned == pc = "returned" /\ call.fn = "extract_endpoints_from_js"

\* the text has a call .name( or a literal method: 'NAME'
Indicates(js_content, name) ==
  HasCall(js_content, name) \/ HasMethodLiteral(js_content, name)

\* C13: all endpoints of one call of extract_endpoints_from_js carry the
\* same method: POST if the text indicates POST anywhere, else PUT, else
\* DELETE, else GET.
SameMethodByPriority ==
  ExtractReturned =>
    \A i \in 1..Len(result.val) :
      result.val[i].method =
        IF Indicates(call.js_content, <<"p","o","s","t">>) THEN <<"P","O","S","T">>
        ELSE IF Indicates(call.js_content, <<"p","u","t">>) THEN <<"P","U","T">>
        ELSE IF Indicates(call.js_content, <<"d","e","l","e","t","e">>)
        THEN <<"D","E","L","E","T","E">>
        ELSE <<"G","E","T">>

\* a text with a PUT call and a POST call gave endpoints for two paths,
\* all of them POST
PostWinsOverPut ==
  /\ ExtractReturned
  /\ Indicates(call.js_content, <<"p","u","t">>)
  /\ Indicates(call.js_content, <<"p","o","s","t">>)
  /\ \E i, j \in 1..Len(result.val) : result.val[i].url # result.val[j].url
  /\ \A i \in 1..Len(result.val) : result.val[i].method = <<"P","O","S","T">>

(***************************************************************************)
(* Further properties of the crawl                                         *)
(***************************************************************************)

\* the headers of a request entry: request.get("headers", {})
RequestHeadersOf(entry) ==
  LET request == entry.v.message.json.v.message.v.params.v.request.v
  IN IF "headers" \in DOMAIN request THEN request.headers.v ELSE EmptyDict

\* the header name is host, connection, user-agent, an accept variant,
\* content-length, content-type, origin, referer or sec-fetch-*, in any case
IsTransportHeader(name) ==
  \/ lower(name) \in {<<"h","o","s","t">>, <<"c","o","n","n","e","c","t","i","o","n">>, <<"u","s","e","r","-","a","g","e","n","t">>, <<"c","o","n","t","e","n","t","-","l","e","n","g","t","h">>, <<"c","o","n","t","e","n","t","-","t","y","p","e">>, <<"o","r","i","g","i","n">>, <<"r","e","f","e","r","e","r">>}
  \/ MatchAt(lower(name), 1, <<"a","c","c","e","p","t">>)
  \/ MatchAt(lower(name), 1, <<"s","e","c","-","f","e","t","c","h","-">>)

\* the entry is a request event the listener makes a descriptor of
IsCapturedRequest(entry) ==
  IsRequestEntry(entry) /\ is_valid_url(RequestUrlOf(entry), base_domain)

\* the last n elements of seq
LastOf(seq, n) == SubSeq(seq, Len(seq) - n + 1, Len(seq))

\* the i-th descriptor has the non-transport headers of the i-th request
HeadersStripped(descriptors, requests) ==
  \A i \in 1..Len(requests) :
    descriptors[i].extra_headers =
      [k \in {h \in DOMAIN RequestHeadersOf(requests[i]) : ~IsTransportHeader(h)}
         |-> RequestHeadersOf(requests[i])[k]]

\* C14: no descriptor of the network capture has a transport-level header
\* in its extra_headers, whatever the case of the header's name, and every
\* other header of the request is kept (here for logs all of whose entries
\* are well-formed).
TransportHeadersStripped ==
  (pc = "links" /\ \A i \in 1..Len(logs) : WellFormed(logs[i])) =>
    /\ Len(endpoints) >= Len(SelectSeq(logs, IsCapturedRequest))
    /\ HeadersStripped(LastOf(endpoints, Len(SelectSeq(logs, IsCapturedRequest))),
                       SelectSeq(logs, IsCapturedRequest))

\* the statements of the loop of line 189
LoopStatements == {"loop", "navigate", "interact", "capture", "links"}

\* C15: the visitation loop always terminates; an iteration starts only
\* when the frontier is non-empty and the visited count is below the cap,
\* and the loop is left only at its test, when that test fails: no
\* exception of a page's steps ends it.
LoopTerminates ==
  /\ [](pc \in LoopStatements => <>(pc \notin LoopStatements))
  /\ [][(pc = "loop" /\ pc' \in LoopStatements)
          => LoopTest(urls_to_visit, visited_urls, args.max_pages)]_vars
  /\ [][(pc \in LoopStatements /\ pc' \notin LoopStatements)
          => /\ pc = "loop"
             /\ ~LoopTest(urls_to_visit, visited_urls, args.max_pages)]_vars

\* the loop ended on an empty frontier, below the cap, after a page loaded
\* and a navigation failed
LoopEndedAfterFailure ==
  /\ pc = "fetch_js"
  /\ urls_to_visit = <<>>
  /\ Cardinality(visited_urls) >= 1
  /\ Cardinality(visited_urls) < args.max_pages
  /\ BagCardinality(navigated) > Cardinality(visited_urls)

\* C16: within a page the network log is drained before the forms are read:
\* the interaction that precedes the drain appends no descriptor, so the
\* page's network-capture descriptors come before its form descriptors.
CaptureBeforeForms ==
  [][pc = "interact" => endpoints' = endpoints]_vars

\* what the capture of a page appends when it processes the log own, the
\* page's own traffic
CaptureOf(own, found, scripts, domain) ==
  ProcessLog(own, [endpoints |-> found, js_urls |-> scripts], domain)

\* C17: a failed navigation leaves the visited set, the collection, the
\* script URLs and the frontier as they are and the loop goes on; and
\* nothing of the failed page is produced later: what a capture appends
\* stems from the traffic of the page it runs on.
FailedPageLeavesNothing ==
  /\ [][(pc = "navigate" /\ pc' # "interact") =>
          /\ pc' = "loop"
          /\ UNCHANGED <<visited_urls, endpoints, js_urls, urls_to_visit>>]_vars
  /\ [][pc = "capture" =>
          IF Len(logs') >= Len(performance_log)
          THEN /\ endpoints' = CaptureOf(LastOf(logs', Len(logs') - Len(performance_log)),
                                         endpoints, js_urls, base_domain).endpoints
               /\ js_urls' = CaptureOf(LastOf(logs', Len(logs') - Len(performance_log)),
                                       endpoints, js_urls, base_domain).js_urls
          ELSE UNCHANGED <<endpoints, js_urls>>]_vars

\* C18: the frontier never holds a URL twice; the URL the loop pops is
\* not in the visited set, so the test of line 191 never succeeds and the
\* URL that is navigated to has not been visited.
FrontierWithoutDuplicates ==
  /\ \A i, j \in 1..Len(urls_to_visit) :
       urls_to_visit[i] = urls_to_visit[j] => i = j
  /\ (pc = "loop" /\ LoopTest(urls_to_visit, visited_urls, args.max_pages))
       => Head(urls_to_visit) \notin visited_urls
  /\ pc = "navigate" => current_url \notin visited_urls

\* a page has shown the same link twice, and the link is queued
LinkShownTwiceQueued ==
  /\ pc = "loop"
  /\ \E i, j \in 1..Len(links) :
       /\ i < j
       /\ links[i] = links[j]
       /\ InSeq(links[i], urls_to_visit)

\* C19: every descriptor of the collection has a URL that is_valid_url
\* accepts for the seed's domain, whether a form, the network capture or
\* a script file gave it: the collection starts empty and holds only such
\* descriptors whenever it or the domain has changed, so it does in every
\* state; the Aggregator therefore drops repeated URLs only, and until
\* then the collection is only appended to.
CollectionAlwaysValid ==
  /\ [][(endpoints' # endpoints \/ base_domain' # base_domain) =>
          \A i \in 1..Len(endpoints') :
            is_valid_url(endpoints'[i].url, base_domain')]_vars
  /\ [](pc = "save" =>
          /\ {unique_endpoints[k].url : k \in 1..Len(unique_endpoints)}
               = {endpoints[i].url : i \in 1..Len(endpoints)}
          /\ Len(unique_endpoints)
               = Cardinality({endpoints[i].url : i \in 1..Len(endpoints)}))
  /\ [][/\ Len(endpoints') >= Len(endpoints)
         /\ SubSeq(endpoints', 1, Len(endpoints)) = endpoints]_vars

\* a form, a captured request and a fetched script file each gave a
\* descriptor, and the collection was aggregated
AllProducersAggregated ==
  /\ pc = "save"
  /\ \E i \in 1..Len(endpoints) :
       endpoints[i].url = extract_form_data(Forms[1], SeedUrl).url
  /\ \E i \in 1..Len(endpoints) : endpoints[i].url \in js_urls
  /\ \E n \in 1..Len(fetches) :
       /\ ~FetchFailed(fetches[n].response)
       /\ \E i \in 1..Len(endpoints) :
            endpoints[i] \in Range(JsDescriptors(JsEndpoints[fetches[n].response.text], headers))
  /\ Len(unique_endpoints) >= 3
====
